---- MODULE Spec2Model ----
(***************************************************************************)
(* A model of scripts/ictv-enrich/enrich_with_ictv.py: the retry wrapper,  *)
(* the resolution cache, the concurrent resolver, the canonicalizer and    *)
(* the graph enricher.                                                     *)
(*                                                                         *)
(* Encoding of the Python values                                           *)
(*   str          a sequence of one-character strings, <<"a", " ">>        *)
(*   None (str)   the sequence None == <<"None">>, which is no string      *)
(*   dict         a record; an optional dict that is absent (or is not a   *)
(*                dict) is the record NoDict                               *)
(*   list         a sequence                                               *)
(* JSON keys are abbreviated: title for "dcterms:title", dct_title for     *)
(* "dct:title", id for "@id", and the EVORAO: prefix is dropped.           *)
(***************************************************************************)
EXTENDS Integers, Sequences, FiniteSets, TLC

VARIABLES
    rc,         \* one activation of robust_call (retry wrapper)
    cn,         \* one activation of pick_best_ictv_entity + ictv_entity_to_evorao_taxon
    en,         \* repeated activations of enrich_graph_with_cache on one graph
    run,        \* the coordinating thread of enrich_file: position and locals
    tasks,      \* the futures of resolve_all_labels, by label
    cacheFile,  \* the cache file at cache_path
    outFile,    \* the output file at output_path
    stored      \* history: the labels a completed run has persisted

vars == <<rc, cn, en, run, tasks, cacheFile, outFile, stored>>

\* The variables of enrich_file, which the component specifications leave alone.
runVars == <<run, tasks, cacheFile, outFile, stored>>

----------------------------------------------------------------------------
(* Strings *)

None == <<"None">>

SP == " "

\* Python truthiness of an optional string: None and "" are falsy.
Truthy(s) == s # None /\ s # <<>>

\* Python `a or b` on optional strings.
Or(a, b) == IF Truthy(a) THEN a ELSE b

RECURSIVE lstrip(_)
lstrip(s) == IF s = <<>> THEN s
             ELSE IF Head(s) = SP THEN lstrip(Tail(s)) ELSE s

RECURSIVE rstrip(_)
rstrip(s) == IF s = <<>> THEN s
             ELSE IF s[Len(s)] = SP THEN rstrip(SubSeq(s, 1, Len(s) - 1)) ELSE s

\* str.strip()
strip(s) == rstrip(lstrip(s))

RECURSIVE Pow2(_)
Pow2(n) == IF n <= 0 THEN 1 ELSE 2 * Pow2(n - 1)

\* The elements of a sequence.
Range(s) == {s[i] : i \in 1..Len(s)}

\* All sequences over S of length at most n.
RECURSIVE SeqUpTo(_, _)
SeqUpTo(S, n) == IF n = 0 THEN {<<>>}
                 ELSE LET shorter == SeqUpTo(S, n - 1)
                      IN  shorter \cup {Append(q, x) : q \in shorter, x \in S}

----------------------------------------------------------------------------
(* Documents *)

\* A component that takes no part in the specification at hand.
Off == [pc |-> "off"]

\* An optional dict that is absent, null, or not a dict (isinstance fails).
NoDict == [none |-> TRUE]

\* `if d:` on an optional dict.
IsDict(d) == d # NoDict

\* A canonical entity as the authority returns it.  rank is NoDict or
\* [label |-> s]; a lineage item is [label |-> s], for the string s as for
\* the dict {"label": s}, which lines 284-290 treat alike.
Ent(label, ictv_id, msl, rank, parent, synonyms, lineage) ==
    [label |-> label, ictv_id |-> ictv_id, msl |-> msl, rank |-> rank,
     direct_parent_label |-> parent, synonyms |-> synonyms, lineage |-> lineage]

\* A cache value: JSON null, a non-dict (the timestamp string under the
\* reserved key), or a resolution result.
NullRes == [kind |-> "null"]
StrRes == [kind |-> "str"]
Res(status, current, final, obsolete) ==
    [kind |-> "dict", status |-> status, current |-> current,
     final |-> final, obsolete |-> obsolete]

----------------------------------------------------------------------------
(* robust_call, lines 18-33 *)

DefaultRetries == 4

\* base_wait = 0.5 s; waits are counted in units of 0.5 s.
DefaultBaseWait == 1

\* What one call of the wrapped function does.
Raises == [raised |-> TRUE, value |-> NullRes]
Returns(v) == [raised |-> FALSE, value |-> v]

\* Entry: wait = base_wait, and the for loop over range(1, retries + 1),
\* which runs no iteration when retries < 1 (the function then returns None).
\* log and slept record the calls made and the sleeps taken.
robust_call_enter(retries, base_wait) ==
    [retries |-> retries, base_wait |-> base_wait,
     pc |-> IF retries >= 1 THEN "try" ELSE "returned",
     attempt |-> 1, wait |-> base_wait,
     log |-> <<>>, slept |-> <<>>, ret |-> NullRes]

\* Mutant: the final failure is re-raised instead of returning None.
robust_call_try_reraises(r, outcome) ==
    IF ~outcome.raised
    THEN [r EXCEPT !.log = Append(@, outcome), !.pc = "returned",
                   !.ret = outcome.value]
    ELSE IF r.attempt = r.retries
    THEN [r EXCEPT !.log = Append(@, outcome), !.pc = "raised"]
    ELSE [r EXCEPT !.log = Append(@, outcome), !.pc = "sleep"]

\* Mutant: the wrapper also waits after the last failed attempt.
robust_call_try_sleeps_last(r, outcome) ==
    IF ~outcome.raised
    THEN [r EXCEPT !.log = Append(@, outcome), !.pc = "returned",
                   !.ret = outcome.value]
    ELSE [r EXCEPT !.log = Append(@, outcome), !.pc = "sleep", !.ret = NullRes]

\* Lines 25-31: one attempt.
robust_call_try(r, outcome) ==
    IF ~outcome.raised
    THEN [r EXCEPT !.log = Append(@, outcome), !.pc = "returned",
                   !.ret = outcome.value]
    ELSE IF r.attempt = r.retries
    THEN [r EXCEPT !.log = Append(@, outcome), !.pc = "returned",
                   !.ret = NullRes]
    ELSE [r EXCEPT !.log = Append(@, outcome), !.pc = "sleep"]

\* Mutant: the wait grows by base_wait instead of doubling.
robust_call_sleep_linear(r) ==
    [r EXCEPT !.slept = Append(@, r.wait), !.wait = r.wait + r.base_wait,
              !.attempt = r.attempt + 1,
              !.pc = IF r.attempt + 1 <= r.retries THEN "try" ELSE "returned"]

\* Lines 32-33, then the loop's next iteration (or its end).
robust_call_sleep(r) ==
    [r EXCEPT !.slept = Append(@, r.wait), !.wait = r.wait * 2,
              !.attempt = r.attempt + 1,
              !.pc = IF r.attempt + 1 <= r.retries THEN "try" ELSE "returned"]


----------------------------------------------------------------------------
(* Canonicalizer: pick_best_ictv_entity, ictv_entity_to_evorao_taxon *)

\* Mutant: an obsolete result yields its obsolete entity before its final one.
pick_best_prefers_obsolete(res) ==
    IF res.kind # "dict" THEN NoDict
    ELSE IF res.status = "current" THEN res.current
    ELSE IF res.status = "obsolete"
         THEN (IF IsDict(res.obsolete) THEN res.obsolete ELSE res.final)
    ELSE NoDict

\* Mutant: the status is not looked at.
pick_best_ignores_status(res) ==
    IF res.kind # "dict" THEN NoDict
    ELSE IF IsDict(res.current) THEN res.current
    ELSE IF IsDict(res.final) THEN res.final
    ELSE res.obsolete

\* Lines 149-165.  An empty dict is falsy like None, so {} and a missing key
\* are both NoDict here.
pick_best_ictv_entity(res) ==
    IF res.kind # "dict" THEN NoDict
    ELSE IF res.status = "current" THEN res.current
    ELSE IF res.status = "obsolete"
         THEN (IF IsDict(res.final) THEN res.final ELSE res.obsolete)
    ELSE NoDict

\* An EVORAO:AlternateName entry: its "dcterms:title" and "dct:title".
Alt(title, dct_title) == [title |-> title, dct_title |-> dct_title]

\* An EVORAO:Taxon node.  id = None when the node has no "@id" key;
\* alternateName and lineage are <<>> when the key is absent.
Taxon(title, dct_title, id, taxonomicId, taxonomy, rank, parentTaxon, alternateName, lineage) ==
    [title |-> title, dct_title |-> dct_title, id |-> id,
     taxonomicId |-> taxonomicId, taxonomy |-> taxonomy, rank |-> rank,
     parentTaxon |-> parentTaxon, alternateName |-> alternateName,
     lineage |-> lineage]

\* Lines 182: ent.get("label") or original_label or "".
TaxonTitle(ent, original_label) ==
    LET x == Or(ent.label, original_label)
    IN  IF Truthy(x) THEN x ELSE <<>>

\* Lines 199-212.
TaxonomyNode(ent) ==
    IF Truthy(ent.msl)
    THEN [title |-> "ICTV", version |-> ent.msl, provider |-> "ICTV via OLS4"]
    ELSE NoDict

\* Lines 215-224: the rank node is built whenever the rank label is
\* non-empty; it refers to the taxonomy node only when there is one.
RankNode(ent) ==
    LET rank_label == IF IsDict(ent.rank) /\ Truthy(ent.rank.label)
                      THEN strip(ent.rank.label) ELSE <<>>
    IN  IF rank_label # <<>>
        THEN [title |-> rank_label, taxonomy |-> TaxonomyNode(ent)]
        ELSE NoDict

\* Lines 227-233.
ParentNode(ent) ==
    IF Truthy(ent.direct_parent_label)
    THEN [title |-> ent.direct_parent_label]
    ELSE NoDict

\* Lines 239-248: the stripped, non-empty synonyms as entries.
RECURSIVE SynonymAlts(_)
SynonymAlts(syns) ==
    IF syns = <<>> THEN <<>>
    ELSE LET s_clean == strip(Head(syns))
         IN  (IF s_clean # <<>> THEN <<Alt(s_clean, None)>> ELSE <<>>)
             \o SynonymAlts(Tail(syns))

\* Lines 251-259.
OriginalAlt(original_label, label) ==
    IF Truthy(original_label)
       /\ strip(original_label) # <<>>
       /\ strip(original_label) # label
    THEN <<Alt(strip(original_label), None)>>
    ELSE <<>>

\* Lines 262-265.
ExistingAlts(existing_taxon) ==
    IF IsDict(existing_taxon) THEN existing_taxon.alternateName ELSE <<>>

\* Mutant: the title is not stripped before it is compared.
AltTitleRaw(a) ==
    LET t == Or(a.title, a.dct_title)
    IN  IF Truthy(t) THEN t ELSE <<>>

\* Line 272: the title an entry is deduplicated by.
AltTitle(a) ==
    LET t == Or(a.title, a.dct_title)
    IN  IF Truthy(t) THEN strip(t) ELSE <<>>

\* Mutant: the last entry of each title is kept instead of the first.
RECURSIVE DedupAltsKeepLast(_, _)
DedupAltsKeepLast(alts, seen_titles) ==
    IF alts = <<>> THEN <<>>
    ELSE LET a == Head(alts)
             title == AltTitle(a)
         IN  IF title = <<>> \/ \E k \in 2..Len(alts) : AltTitle(alts[k]) = title
             THEN DedupAltsKeepLast(Tail(alts), seen_titles)
             ELSE <<a>> \o DedupAltsKeepLast(Tail(alts), seen_titles)

\* Lines 268-280: keep the first entry of each non-empty title.
RECURSIVE DedupAlts(_, _)
DedupAlts(alts, seen_titles) ==
    IF alts = <<>> THEN <<>>
    ELSE LET a == Head(alts)
             title == AltTitle(a)
         IN  IF title = <<>> \/ title \in seen_titles
             THEN DedupAlts(Tail(alts), seen_titles)
             ELSE <<a>> \o DedupAlts(Tail(alts), seen_titles \cup {title})

\* Lines 283-296.
RECURSIVE LineageVals(_)
LineageVals(lin) ==
    IF lin = <<>> THEN <<>>
    ELSE LET l == Head(lin)
             v == IF Truthy(l.label) THEN strip(l.label) ELSE <<>>
         IN  (IF v # <<>> THEN <<v>> ELSE <<>>) \o LineageVals(Tail(lin))

\* Lines 168-298.
ictv_entity_to_evorao_taxon(ent, original_label, existing_taxon) ==
    LET label == TaxonTitle(ent, original_label)
    IN  Taxon(label,
              None,
              IF IsDict(existing_taxon) THEN existing_taxon.id ELSE None,
              IF Truthy(ent.ictv_id) THEN ent.ictv_id ELSE None,
              TaxonomyNode(ent),
              RankNode(ent),
              ParentNode(ent),
              DedupAlts(SynonymAlts(ent.synonyms)
                          \o OriginalAlt(original_label, label)
                          \o ExistingAlts(existing_taxon), {}),
              LineageVals(ent.lineage))

----------------------------------------------------------------------------
(* Graph enricher: ensure_list, expand_search_fields, enrich_graph_with_cache *)

\* A list-valued field of a record: the key is absent (or null), holds one
\* scalar, or holds a list.
NoField == [kind |-> "none"]
Scalar(x) == [kind |-> "scalar", s |-> x]
List(xs) == [kind |-> "list", v |-> xs]

\* Lines 36-44: the list the field holds after ensure_list.
ensure_list(f) ==
    IF f.kind = "none" THEN <<>>
    ELSE IF f.kind = "list" THEN f.v
    ELSE <<f.s>>

\* A record of the graph.  pid ("EVORAO:pathogenIdentification") is NoDict
\* or [pathogenName, taxon]; pathogenName is NoDict or [title, dct_title];
\* taxon is NoDict or a Taxon.
Node(id, pid, keyword, search_taxon, taxonLabel) ==
    [id |-> id, pid |-> pid, keyword |-> keyword,
     search_taxon |-> search_taxon, taxonLabel |-> taxonLabel]

Pid(pathogenName, taxon) == [pathogenName |-> pathogenName, taxon |-> taxon]

\* d.get("dcterms:title") or d.get("dct:title"), None for no dict.
TitleOf(d) == IF IsDict(d) THEN Or(d.title, d.dct_title) ELSE None

\* Line 347: list(dict.fromkeys(x for x in labels if x)).
RECURSIVE DedupLabels(_, _)
DedupLabels(labels, seen) ==
    IF labels = <<>> THEN <<>>
    ELSE LET x == Head(labels)
         IN  IF ~Truthy(x) \/ x \in seen
             THEN DedupLabels(Tail(labels), seen)
             ELSE <<x>> \o DedupLabels(Tail(labels), seen \cup {x})

\* Lines 331-335.
RECURSIVE AltLabels(_)
AltLabels(alts) ==
    IF alts = <<>> THEN <<>>
    ELSE LET t == Or(Head(alts).title, Head(alts).dct_title)
         IN  (IF Truthy(t) THEN <<t>> ELSE <<>>) \o AltLabels(Tail(alts))

\* Mutant: the alternate names are left out of the display labels.
SearchLabelsNoAlts(taxon_obj, original_label, ent) ==
    LET main_label == Or(taxon_obj.title, taxon_obj.dct_title)
    IN  DedupLabels(
            (IF Truthy(main_label) THEN <<main_label>> ELSE <<>>)
            \o (IF Truthy(original_label)
                   /\ strip(original_label) # <<>>
                   /\ strip(original_label) # main_label
                THEN <<strip(original_label)>> ELSE <<>>)
            \o (IF Truthy(ent.direct_parent_label)
                THEN <<ent.direct_parent_label>> ELSE <<>>)
            \o taxon_obj.lineage,
            {})

\* Lines 316-347: the display labels of a record.
SearchLabels(taxon_obj, original_label, ent) ==
    LET main_label == Or(taxon_obj.title, taxon_obj.dct_title)
    IN  DedupLabels(
            (IF Truthy(main_label) THEN <<main_label>> ELSE <<>>)
            \o (IF Truthy(original_label)
                   /\ strip(original_label) # <<>>
                   /\ strip(original_label) # main_label
                THEN <<strip(original_label)>> ELSE <<>>)
            \o AltLabels(taxon_obj.alternateName)
            \o (IF Truthy(ent.direct_parent_label)
                THEN <<ent.direct_parent_label>> ELSE <<>>)
            \o taxon_obj.lineage,
            {})

\* Mutant: every label is appended, held already or not.
AppendAll(arr, labels) == arr \o labels

\* Lines 350-354: append the labels the list does not hold yet.
RECURSIVE AppendNew(_, _)
AppendNew(arr, labels) ==
    IF labels = <<>> THEN arr
    ELSE AppendNew(IF Head(labels) \in Range(arr) THEN arr
                   ELSE Append(arr, Head(labels)),
                   Tail(labels))

\* Lines 301-354.
expand_search_fields(entity, taxon_obj, original_label, ent) ==
    LET main_label == Or(taxon_obj.title, taxon_obj.dct_title)
        labels == SearchLabels(taxon_obj, original_label, ent)
    IN  [entity EXCEPT
            !.taxonLabel = IF Truthy(main_label) THEN main_label ELSE @,
            !.keyword = List(AppendNew(ensure_list(@), labels)),
            !.search_taxon = List(AppendNew(ensure_list(@), labels))]

\* Lines 389-397: the entity a candidate label yields, NoDict for none.
CandidateEntity(candidate, cache) ==
    IF ~Truthy(candidate) THEN NoDict
    ELSE LET key == strip(candidate)
         IN  IF key = <<>> \/ key \notin DOMAIN cache THEN NoDict
             ELSE pick_best_ictv_entity(cache[key])

\* Mutant: the taxon label is tried before the pathogen name.
ChosenEntityTaxonFirst(virus_name, taxon_label, cache) ==
    IF IsDict(CandidateEntity(taxon_label, cache))
    THEN CandidateEntity(taxon_label, cache)
    ELSE CandidateEntity(virus_name, cache)

\* Lines 388-401: the pathogen name first, then the taxon label.
ChosenEntity(virus_name, taxon_label, cache) ==
    IF IsDict(CandidateEntity(virus_name, cache))
    THEN CandidateEntity(virus_name, cache)
    ELSE CandidateEntity(taxon_label, cache)

\* Lines 366-416: one record of the loop.
EnrichNode(node, cache) ==
    IF ~IsDict(node.pid) THEN node
    ELSE LET virus_name == TitleOf(node.pid.pathogenName)
             existing_taxon == node.pid.taxon
             taxon_label == TitleOf(existing_taxon)
             ent == ChosenEntity(virus_name, taxon_label, cache)
         IN  IF ~IsDict(ent) THEN node
             ELSE LET new_taxon == ictv_entity_to_evorao_taxon(
                                       ent, taxon_label, existing_taxon)
                  IN  expand_search_fields(
                          [node EXCEPT !.pid.taxon = new_taxon],
                          new_taxon, taxon_label, ent)

\* Mutant: the records that have no pathogen identification are left out.
enrich_graph_skipping_records(graph, cache) ==
    LET kept == SelectSeq(graph, LAMBDA node : IsDict(node.pid))
    IN  [i \in 1..Len(kept) |-> EnrichNode(kept[i], cache)]

\* Lines 361-419.
enrich_graph_with_cache(graph, cache) ==
    [i \in 1..Len(graph) |-> EnrichNode(graph[i], cache)]

----------------------------------------------------------------------------
(* Resolution cache and concurrent resolver: load_cache, save_cache,
   collect_labels_for_resolution, resolve_label_once, resolve_all_labels *)

\* The reserved key save_cache adds to the cache (line 65), kept as one
\* symbol since no title of the inputs spells it.
FetchedAtKey == <<"_fetched_at">>

\* enrich_file passes max_workers = 8 (line 441).
MaxWorkers == 8

\* A file: absent, unparsable (a truncated or partial document), or holding a
\* document.  json.dump then json.load gives back an equal mapping for the
\* values of this model (string keys; null, strings and objects as values),
\* so the document is kept as the mapping itself.
AbsentFile == [kind |-> "absent"]
CorruptFile == [kind |-> "corrupt"]
CacheDoc(data) == [kind |-> "ok", data |-> data]

\* The empty dict.
EmptyCache == <<>>

\* Lines 51-60.
load_cache(file) == IF file.kind = "ok" THEN file.data ELSE EmptyCache

\* Line 65: cache["_fetched_at"] = now, on the caller's dict.
StampCache(cache) ==
    [k \in DOMAIN cache \cup {FetchedAtKey} |->
        IF k = FetchedAtKey THEN StrRes ELSE cache[k]]

\* Lines 67-72: what the file holds after save_cache: the new document;
\* the file as it was, when open() raised; or a truncated document, when
\* the write raised after open(..., "w") had emptied the file.  The
\* exception is swallowed in both failures.
SaveOutcomes(cache, file) ==
    {[how |-> "ok", file |-> CacheDoc(StampCache(cache))],
     [how |-> "unopened", file |-> file],
     [how |-> "partial", file |-> CorruptFile]}

\* Lines 88-92 and 94-98: the label a title node adds, if any.
TitleLabels(d) ==
    IF IsDict(d) /\ Truthy(Or(d.title, d.dct_title))
    THEN {strip(Or(d.title, d.dct_title))}
    ELSE {}

\* Mutant: only the pathogen names are collected.
collect_pathogen_names_only(graph) ==
    UNION {IF IsDict(graph[i].pid)
           THEN TitleLabels(graph[i].pid.pathogenName)
           ELSE {} : i \in 1..Len(graph)}

\* Lines 75-100.
collect_labels_for_resolution(graph) ==
    UNION {IF IsDict(graph[i].pid)
           THEN TitleLabels(graph[i].pid.pathogenName)
                    \cup TitleLabels(graph[i].pid.taxon)
           ELSE {} : i \in 1..Len(graph)}

\* Mutant: the cache is not consulted.
MissingAll(labels, cache) == labels

\* Line 117.
Missing(labels, cache) == {lbl \in labels : lbl \notin DOMAIN cache}

\* A future of the executor: queued, running resolve_label_once, done
\* (with a result or an exception), and collected by the coordinator.
QueuedTask == [st |-> "queued", raised |-> FALSE, r |-> Off]

\* Line 127.
SubmitAll(missing) == [lbl \in missing |-> QueuedTask]

\* Lines 131-135: the result the coordinator takes from a done future.
FutureResult(t) == IF t.raised THEN NullRes ELSE t.r.ret

----------------------------------------------------------------------------
(* Bounds and inputs *)

\* robust_call is exercised with retries in 0..MaxRetries and
\* base_wait in 1..MaxBaseWait.
MaxRetries == 4
MaxBaseWait == 3

\* The names that occur in titles, labels and synonyms.
A == <<"a">>
B == <<"b">>
C == <<"c">>
PadA == <<SP, "a">>
Blank == <<SP>>
Empty == <<>>

\* An entity with a label, a persistent identifier and synonyms only.
SimpleEnt(label, ictv_id, synonyms) ==
    Ent(label, ictv_id, None, NoDict, None, synonyms, <<>>)

EntA == SimpleEnt(A, <<"1">>, <<>>)
EntB == SimpleEnt(B, <<"2">>, <<A>>)
EntC == SimpleEnt(C, <<"3">>, <<B>>)

\* What the wrapped function may return in the retry specification.
RetValues == {NullRes, Res("current", EntA, NoDict, NoDict),
              Res("obsolete", NoDict, EntB, EntA)}

RunOff ==
    /\ run = Off
    /\ tasks = <<>>
    /\ cacheFile = Off
    /\ outFile = Off
    /\ stored = {}

----------------------------------------------------------------------------
(* The retry wrapper on its own: SpecRetry *)

RetryInit ==
    /\ rc \in {robust_call_enter(r, b) : r \in 0..MaxRetries, b \in 1..MaxBaseWait}
    /\ cn = Off
    /\ en = Off
    /\ RunOff

\* The wrapped function returns a value or raises an Exception.
RcTry ==
    /\ rc.pc = "try"
    /\ \E o \in {Raises} \cup {Returns(v) : v \in RetValues} :
           rc' = robust_call_try(rc, o)
    /\ UNCHANGED <<cn, en, runVars>>

RcSleep ==
    /\ rc.pc = "sleep"
    /\ rc' = robust_call_sleep(rc)
    /\ UNCHANGED <<cn, en, runVars>>

RetryNext == RcTry \/ RcSleep

SpecRetry == RetryInit /\ [][RetryNext]_vars

\* The calls of the wrapped function that raised, among the first n.
RECURSIVE AllRaised(_, _)
AllRaised(log, n) == n = 0 \/ (log[n].raised /\ AllRaised(log, n - 1))

\* C9: robust_call calls the wrapped operation at most `retries` times; it
\* returns the value of the first attempt that does not raise and calls it
\* no more; when every attempt raises it returns None; it never re-raises.
C9_RetryBounded ==
    /\ Len(rc.log) <= rc.retries
    /\ rc.pc \in {"try", "sleep", "returned"}
    /\ \A i \in 1..(Len(rc.log) - 1) : rc.log[i].raised
    /\ rc.pc = "returned" /\ rc.retries >= 1 =>
          LET n == Len(rc.log)
          IN  /\ n >= 1
              /\ ~rc.log[n].raised => rc.ret = rc.log[n].value
              /\ rc.log[n].raised => (n = rc.retries /\ rc.ret = NullRes)
    /\ rc.pc # "returned" => \A i \in 1..Len(rc.log) : rc.log[i].raised

\* A call that succeeded on its last permitted attempt after failures, and
\* a call whose every attempt failed.
C9_Witness ==
    /\ rc.pc = "returned"
    /\ rc.retries = DefaultRetries
    /\ Len(rc.log) = DefaultRetries
    /\ AllRaised(rc.log, DefaultRetries - 1)
    /\ ~rc.log[DefaultRetries].raised
    /\ rc.ret = rc.log[DefaultRetries].value
    /\ rc.ret # NullRes

\* C10: after the k-th failed attempt, k < retries, robust_call waits
\* base_wait * 2^(k-1) before attempt k+1; after the final failed attempt
\* it returns None without waiting.
C10_Backoff ==
    /\ \A k \in 1..Len(rc.slept) : rc.slept[k] = rc.base_wait * Pow2(k - 1)
    /\ rc.pc = "try" => Len(rc.slept) = rc.attempt - 1 /\ Len(rc.log) = rc.attempt - 1
    /\ rc.pc = "sleep" => Len(rc.slept) = Len(rc.log) - 1 /\ Len(rc.log) < rc.retries
    /\ rc.pc = "returned" /\ rc.retries >= 1 => Len(rc.slept) = Len(rc.log) - 1
    /\ rc.pc = "returned" /\ rc.retries >= 1 /\ AllRaised(rc.log, Len(rc.log)) =>
          rc.ret = NullRes /\ Len(rc.slept) = rc.retries - 1

\* Every attempt of a default call failed: three waits of 1, 2 and 4 units.
C10_Witness ==
    /\ rc.pc = "returned"
    /\ rc.retries = DefaultRetries
    /\ rc.base_wait = DefaultBaseWait
    /\ AllRaised(rc.log, Len(rc.log))
    /\ Len(rc.log) = DefaultRetries
    /\ rc.slept = <<1, 2, 4>>

\* The sum of a sequence of numbers.
RECURSIVE SumSeq(_)
SumSeq(q) == IF q = <<>> THEN 0 ELSE Head(q) + SumSeq(Tail(q))

\* A call with retries >= 1 has returned after every attempt failed.
GaveUp ==
    /\ rc.pc = "returned"
    /\ rc.retries >= 1
    /\ Len(rc.log) = rc.retries
    /\ AllRaised(rc.log, Len(rc.log))

\* C25, amended: when every attempt fails, the waits of robust_call add up
\* to base_wait * (2^(retries-1) - 1), which is 7 units of base_wait for
\* the default retries = 4: there is a wait after each failed attempt but
\* the last.
C25_TotalBackoff ==
    GaveUp => SumSeq(rc.slept) = rc.base_wait * (Pow2(rc.retries - 1) - 1)

\* C25 as stated: the waits add up to base_wait * (2^retries - 1).
C25_TotalBackoffAsStated ==
    GaveUp => SumSeq(rc.slept) = rc.base_wait * (Pow2(rc.retries) - 1)

\* A default call with base_wait 2 whose four attempts failed has waited
\* 2 + 4 + 8 = 14, seven times base_wait.
C25_Witness ==
    /\ GaveUp
    /\ rc.retries = DefaultRetries
    /\ rc.base_wait = 2
    /\ SumSeq(rc.slept) = 14


----------------------------------------------------------------------------
(* The canonicalizer on its own: SpecCanon *)

\* The longest synonym list and the longest existing alternate-name list.
MaxSyn == 2
MaxAlts == 2

SynStrings == {A, PadA, B, Blank}

AltEntries ==
    {Alt(A, None), Alt(PadA, None), Alt(None, B), Alt(Blank, None), Alt(C, None)}

\* Every status with every combination of populated entities, null, and a
\* non-dict.
PickResults ==
    {Res(st, c, f, o) : st \in {"current", "obsolete", "withdrawn"},
                        c \in {NoDict, EntA}, f \in {NoDict, EntB},
                        o \in {NoDict, EntC}}
    \cup {NullRes, StrRes}

\* Entities that differ in label and synonyms, and entities that differ in
\* the other attributes.
NameEnts ==
    {SimpleEnt(l, <<"1">>, syn) : l \in {None, A, B},
                                  syn \in SeqUpTo(SynStrings, MaxSyn)}

MetaEnts ==
    {Ent(A, i, m, r, p, <<>>, lin) :
        i \in {None, <<"1">>}, m \in {None, <<"9">>},
        r \in {NoDict, [label |-> <<"r">>], [label |-> Blank]},
        p \in {None, C},
        lin \in {<<>>, <<[label |-> B], [label |-> Blank], [label |-> PadA]>>}}

CanonResults ==
    PickResults \cup {Res("current", e, NoDict, NoDict) : e \in NameEnts \cup MetaEnts}

ExistingTaxa ==
    {NoDict, Taxon(A, None, None, None, NoDict, NoDict, NoDict, <<>>, <<>>)}
    \cup {Taxon(A, None, <<"x">>, <<"7">>, NoDict, NoDict, NoDict, alts, <<>>) :
            alts \in SeqUpTo(AltEntries, MaxAlts)}

CanonInit ==
    /\ cn \in {[pc |-> "start", res |-> r, original_label |-> o,
                existing_taxon |-> x, ent |-> NoDict, taxon |-> NoDict] :
                  r \in CanonResults, o \in {None, A, PadA, B},
                  x \in ExistingTaxa}
    /\ rc = Off
    /\ en = Off
    /\ RunOff

\* Line 397: the entity of the resolution result.
CnPick ==
    /\ cn.pc = "start"
    /\ LET best == pick_best_ictv_entity(cn.res)
       IN  cn' = [cn EXCEPT !.ent = best,
                            !.pc = IF IsDict(best) THEN "picked" ELSE "none"]
    /\ UNCHANGED <<rc, en, runVars>>

\* Lines 408-412: the taxon node of the entity.
CnBuild ==
    /\ cn.pc = "picked"
    /\ cn' = [cn EXCEPT !.pc = "built",
                        !.taxon = ictv_entity_to_evorao_taxon(
                                      cn.ent, cn.original_label, cn.existing_taxon)]
    /\ UNCHANGED <<rc, en, runVars>>

CanonNext == CnPick \/ CnBuild

SpecCanon == CanonInit /\ [][CanonNext]_vars

\* C6: pick_best_ictv_entity returns the current entity for status current;
\* for status obsolete the final entity when there is one and the obsolete
\* entity only otherwise; for any other status and for a null (or non-dict)
\* result no entity.
C6_ObsolescencePrecedence ==
    cn.pc \in {"picked", "none", "built"} =>
        LET r == cn.res
            isRes == r.kind = "dict"
        IN  /\ isRes /\ r.status = "current" => cn.ent = r.current
            /\ isRes /\ r.status = "obsolete" /\ r.final # NoDict => cn.ent = r.final
            /\ isRes /\ r.status = "obsolete" /\ r.final = NoDict => cn.ent = r.obsolete
            /\ ~isRes => cn.ent = NoDict
            /\ isRes /\ r.status \notin {"current", "obsolete"} => cn.ent = NoDict

\* An obsolete result with both entities populated, resolved to the final one.
C6_Witness ==
    /\ cn.pc = "picked"
    /\ cn.res.kind = "dict"
    /\ cn.res.status = "obsolete"
    /\ cn.res.final = EntB
    /\ cn.res.obsolete = EntC
    /\ cn.ent = EntB

\* The title of an alternate-name entry, trimmed as labels are compared.
EntryTitle(a) ==
    LET t == IF a.title # None /\ a.title # <<>> THEN a.title ELSE a.dct_title
    IN  IF t = None THEN <<>> ELSE strip(t)

\* C7: the alternate-name list of every taxon node the canonicalizer builds
\* has no two entries with equal title and no entry with an empty title,
\* whatever the synonyms, the original label and the existing alternate names.
C7_AltNamesUnique ==
    cn.pc = "built" =>
        LET alts == cn.taxon.alternateName
        IN  /\ \A i \in 1..Len(alts) : EntryTitle(alts[i]) # <<>>
            /\ \A i, j \in 1..Len(alts) :
                   i # j => EntryTitle(alts[i]) # EntryTitle(alts[j])

\* A node built from a synonym, an original label and an existing alternate
\* name that all trim to the same title, next to a different one.
C7_Witness ==
    /\ cn.pc = "built"
    /\ cn.ent.synonyms = <<PadA, B>>
    /\ cn.original_label = A
    /\ cn.ent.label = None
    /\ cn.existing_taxon # NoDict
    /\ cn.existing_taxon.alternateName = <<Alt(A, None), Alt(None, B)>>
    /\ Len(cn.taxon.alternateName) = 2

\* C17 as stated: the taxon node built for a record keeps what the existing
\* node held: its @id, its taxonomic identifier, and every alternate name
\* with a non-empty title.
C17_NothingDiscarded ==
    cn.pc = "built" /\ cn.existing_taxon # NoDict =>
        LET old == cn.existing_taxon
            new == cn.taxon
        IN  /\ new.id = old.id
            /\ old.taxonomicId # None => new.taxonomicId = old.taxonomicId
            /\ \A i \in 1..Len(old.alternateName) :
                   EntryTitle(old.alternateName[i]) # <<>> =>
                       \E j \in 1..Len(new.alternateName) :
                           EntryTitle(new.alternateName[j])
                               = EntryTitle(old.alternateName[i])

\* C21 as stated: a taxon node has a rank sub-node only when it has a
\* taxonomy-version sub-node; for an entity without a version tag it has
\* neither, whatever the entity's rank label.
C21_RankOnlyWithTaxonomy ==
    cn.pc = "built" =>
        /\ cn.taxon.rank # NoDict => cn.taxon.taxonomy # NoDict
        /\ (cn.ent.msl = None \/ cn.ent.msl = <<>>) =>
               cn.taxon.taxonomy = NoDict /\ cn.taxon.rank = NoDict

\* The trimmed, non-empty titles the three sources of alternate names give,
\* in the order the claim names them.
SynonymTitles(ent) ==
    SelectSeq([i \in 1..Len(ent.synonyms) |-> strip(ent.synonyms[i])],
              LAMBDA t : t # <<>>)

OriginalTitle(original_label, title) ==
    IF original_label # None /\ strip(original_label) # <<>>
       /\ strip(original_label) # title
    THEN <<strip(original_label)>> ELSE <<>>

ExistingTitles(existing_taxon) ==
    IF existing_taxon = NoDict THEN <<>>
    ELSE SelectSeq([i \in 1..Len(existing_taxon.alternateName) |->
                       EntryTitle(existing_taxon.alternateName[i])],
                   LAMBDA t : t # <<>>)

\* The first occurrence of each title, from position i on.
RECURSIVE FirstOccurrences(_, _)
FirstOccurrences(ts, i) ==
    IF i > Len(ts) THEN <<>>
    ELSE (IF \E k \in 1..(i - 1) : ts[k] = ts[i] THEN <<>> ELSE <<ts[i]>>)
         \o FirstOccurrences(ts, i + 1)

----------------------------------------------------------------------------
(* The graph enricher on its own: SpecEnrich *)

\* How many times in succession the graph is enriched with the same cache.
MaxApplications == 2

PathogenName(title) == [title |-> title, dct_title |-> None]

EnrichPathogenNames ==
    {NoDict, PathogenName(A), PathogenName(PadA), PathogenName(B),
     PathogenName(Blank), [title |-> None, dct_title |-> A]}

EnrichTaxa ==
    {NoDict}
    \cup {Taxon(t, None, None, None, NoDict, NoDict, NoDict, <<>>, <<>>) :
            t \in {A, B, Empty}}
    \cup {Taxon(t, None, <<"x">>, <<"7">>, NoDict, NoDict, NoDict,
                <<Alt(C, None)>>, <<>>) : t \in {A, B}}
    \cup {Taxon(None, B, None, None, NoDict, NoDict, NoDict, <<>>, <<>>)}

EnrichNodes ==
    {Node(<<"n">>, NoDict, NoField, NoField, None)}
    \cup {Node(<<"n">>, Pid(pn, tx), kw, NoField, None) :
            pn \in EnrichPathogenNames, tx \in EnrichTaxa,
            kw \in {NoField, Scalar(A), List(<<B, C>>)}}

\* Graphs of one record, and a few of two.
EnrichGraphs ==
    {<<n>> : n \in EnrichNodes}
    \cup {<<Node(<<"m">>, Pid(pn, NoDict), NoField, NoField, None),
            Node(<<"n">>, Pid(NoDict, tx), NoField, NoField, None)>> :
            pn \in {PathogenName(A), PathogenName(B)},
            tx \in {Taxon(t, None, None, None, NoDict, NoDict, NoDict, <<>>, <<>>) :
                      t \in {A, B}}}

\* What the cache may hold for the keys "a" and "b": nothing, null, or a
\* result of the authority.
CacheValsA ==
    {NullRes, Res("current", EntB, NoDict, NoDict),
     Res("obsolete", NoDict, EntB, EntA), Res("withdrawn", NoDict, NoDict, EntC)}

CacheValsB ==
    {NullRes, Res("current", EntB, NoDict, NoDict),
     Res("current", EntC, NoDict, NoDict), Res("obsolete", NoDict, NoDict, EntA)}

\* The caches of the inputs; each holds the timestamp save_cache has put
\* into it before the enrichment (lines 444-447).
EnrichCaches ==
    LET stamp == FetchedAtKey :> StrRes
    IN  {stamp}
        \cup {stamp @@ (A :> a) : a \in CacheValsA}
        \cup {stamp @@ (B :> b) : b \in CacheValsB}
        \cup {stamp @@ (A :> a) @@ (B :> b) : a \in CacheValsA, b \in CacheValsB}

EnrichInit ==
    /\ en \in {[runs |-> 0, graph |-> g, cache |-> c, before |-> g] :
                 g \in EnrichGraphs, c \in EnrichCaches}
    /\ rc = Off
    /\ cn = Off
    /\ RunOff

\* One call of enrich_graph_with_cache on the graph, the cache unchanged.
EnApply ==
    /\ en.runs < MaxApplications
    /\ en' = [en EXCEPT !.runs = @ + 1,
                        !.before = en.graph,
                        !.graph = enrich_graph_with_cache(en.graph, en.cache)]
    /\ UNCHANGED <<rc, cn, runVars>>

EnrichNext == EnApply

SpecEnrich == EnrichInit /\ [][EnrichNext]_vars

\* The entity the cache yields for a title, by the obsolescence rule:
\* NoDict when the title is empty, absent from the cache, cached as null or
\* as a non-dict, of another status, or without the entity of its status.
UsableEntity(title, cache) ==
    IF title = None \/ title = <<>> \/ strip(title) = <<>> THEN NoDict
    ELSE IF strip(title) \notin DOMAIN cache THEN NoDict
    ELSE LET r == cache[strip(title)]
         IN  IF r.kind # "dict" THEN NoDict
             ELSE IF r.status = "current" THEN r.current
             ELSE IF r.status = "obsolete"
                  THEN (IF r.final # NoDict THEN r.final ELSE r.obsolete)
             ELSE NoDict

\* The two titles of a record, None where it has none.
NameTitle(n) ==
    IF n.pid = NoDict \/ n.pid.pathogenName = NoDict THEN None
    ELSE IF n.pid.pathogenName.title # None /\ n.pid.pathogenName.title # <<>>
         THEN n.pid.pathogenName.title
    ELSE n.pid.pathogenName.dct_title

TaxonTitleOf(n) ==
    IF n.pid = NoDict \/ n.pid.taxon = NoDict THEN None
    ELSE IF n.pid.taxon.title # None /\ n.pid.taxon.title # <<>>
         THEN n.pid.taxon.title
    ELSE n.pid.taxon.dct_title

\* C3 as stated: enriching twice with the same cache gives the graph of the
\* first enrichment.
C3_Idempotent ==
    en.runs >= 2 => en.graph = en.before

\* C4: a record none of whose candidate labels yields a usable entity is
\* left identical to the input, taxon node and search fields included.
C4_UntouchedOnMiss ==
    en.runs >= 1 =>
        \A i \in 1..Len(en.before) :
            (/\ UsableEntity(NameTitle(en.before[i]), en.cache) = NoDict
             /\ UsableEntity(TaxonTitleOf(en.before[i]), en.cache) = NoDict)
            => en.graph[i] = en.before[i]

\* A record with both titles cached, one as null and one with a status that
\* is neither current nor obsolete, after an enrichment.
C4_Witness ==
    /\ en.runs = 1
    /\ Len(en.graph) = 1
    /\ en.before[1].pid # NoDict
    /\ NameTitle(en.before[1]) = B
    /\ TaxonTitleOf(en.before[1]) = A
    /\ A \in DOMAIN en.cache /\ B \in DOMAIN en.cache
    /\ en.cache[B] = NullRes
    /\ en.cache[A].kind = "dict" /\ en.cache[A].status = "withdrawn"
    /\ en.graph = en.before

\* C5: when the pathogen-name title yields a usable entity the new taxon
\* node is built from it, also when the taxon title yields one; the taxon
\* title's entity is used only when the pathogen name yields none.
C5_CandidateOrder ==
    en.runs >= 1 =>
        \A i \in 1..Len(en.before) :
            LET byName == UsableEntity(NameTitle(en.before[i]), en.cache)
                byTaxon == UsableEntity(TaxonTitleOf(en.before[i]), en.cache)
                new == en.graph[i].pid.taxon
            IN  /\ byName # NoDict =>
                      new.taxonomicId = byName.ictv_id /\ new.title = byName.label
                /\ byName = NoDict /\ byTaxon # NoDict =>
                      new.taxonomicId = byTaxon.ictv_id /\ new.title = byTaxon.label

\* Both titles yield an entity, two different ones, and the node carries the
\* pathogen name's.
C5_Witness ==
    /\ en.runs = 1
    /\ Len(en.graph) = 1
    /\ en.before[1].pid # NoDict
    /\ UsableEntity(NameTitle(en.before[1]), en.cache) = EntC
    /\ UsableEntity(TaxonTitleOf(en.before[1]), en.cache) = EntB
    /\ en.graph[1].pid.taxon.taxonomicId = EntC.ictv_id

\* C18: enrich_graph_with_cache keeps the records of the graph, their
\* number and their order; on a record it changes at most the embedded taxon
\* node, the taxon label, the keyword field and the taxon-search field, so
\* the record's identifier and its pathogen-name node are as they were.
C18_FrameOnly ==
    en.runs >= 1 =>
        /\ Len(en.graph) = Len(en.before)
        /\ \A i \in 1..Len(en.before) :
               LET old == en.before[i]
                   new == en.graph[i]
               IN  /\ new.id = old.id
                   /\ old.pid = NoDict => new = old
                   /\ old.pid # NoDict =>
                          /\ new.pid # NoDict
                          /\ new.pid.pathogenName = old.pid.pathogenName
                          /\ [new EXCEPT !.pid.taxon = old.pid.taxon,
                                         !.keyword = old.keyword,
                                         !.search_taxon = old.search_taxon,
                                         !.taxonLabel = old.taxonLabel] = old

\* A graph of two records, both enriched: the taxon node and the search
\* fields of each have changed.
C18_Witness ==
    /\ en.runs = 1
    /\ Len(en.graph) = 2
    /\ en.graph[1].pid.taxon # en.before[1].pid.taxon
    /\ en.graph[2].pid.taxon # en.before[2].pid.taxon
    /\ en.graph[1].keyword # en.before[1].keyword
    /\ en.graph[2].taxonLabel # en.before[2].taxonLabel
    /\ en.graph[1].pid.pathogenName = PathogenName(A)

\* The values of a list field: none when absent, the one value of a scalar.
FieldValues(f) ==
    IF f.kind = "none" THEN <<>>
    ELSE IF f.kind = "scalar" THEN <<f.s>>
    ELSE f.v

\* The new values extend the old ones at the end, each appended value being
\* one the list did not hold yet.
Grown(oldf, newf) ==
    LET o == FieldValues(oldf)
        n == FieldValues(newf)
    IN  /\ Len(o) <= Len(n)
        /\ SubSeq(n, 1, Len(o)) = o
        /\ \A j \in (Len(o) + 1)..Len(n) :
               \A k \in 1..(j - 1) : n[k] # n[j]

\* C19: an enrichment keeps every value of the keyword and taxon-search
\* fields, in their order, and appends a label only when the list does not
\* hold it yet; a repeated enrichment that leaves the taxon data as it was
\* adds nothing to the two fields.
C19_AppendOnly ==
    en.runs >= 1 =>
        \A i \in 1..Len(en.before) :
            LET old == en.before[i]
                new == en.graph[i]
            IN  /\ Grown(old.keyword, new.keyword)
                /\ Grown(old.search_taxon, new.search_taxon)
                /\ en.runs >= 2 /\ new.pid = old.pid =>
                       /\ FieldValues(new.keyword) = FieldValues(old.keyword)
                       /\ FieldValues(new.search_taxon)
                              = FieldValues(old.search_taxon)

\* A record whose keyword list held "b" and "c": the enrichment found the
\* labels "b" and "a" and appended "a" alone; a second enrichment has left
\* the record as it was.
C19_Witness ==
    /\ en.runs = 2
    /\ Len(en.graph) = 1
    /\ en.graph[1].pid # NoDict
    /\ en.graph[1].pid.taxon # NoDict
    /\ en.graph[1].pid.taxon.title = B
    /\ en.graph[1].keyword = List(<<B, C, A>>)
    /\ en.graph[1].search_taxon = List(<<B, A>>)
    /\ en.before = en.graph

\* The chosen label of a record: the candidate label whose cached result
\* yields the chosen entity.
ChosenLabel(n, cache) ==
    IF UsableEntity(NameTitle(n), cache) # NoDict THEN NameTitle(n)
    ELSE TaxonTitleOf(n)

\* C22 as stated: the taxon node of an enriched record is the one the
\* Canonicalizer builds from the chosen entity, the chosen label and the
\* existing taxon node, and its search fields are expanded with the chosen
\* label.
C22_ChosenLabelPassed ==
    en.runs >= 1 =>
        \A i \in 1..Len(en.before) :
            LET old == en.before[i]
                lbl == ChosenLabel(old, en.cache)
                ent == UsableEntity(lbl, en.cache)
            IN  ent # NoDict =>
                    LET taxon == ictv_entity_to_evorao_taxon(ent, lbl, old.pid.taxon)
                    IN  en.graph[i] =
                            expand_search_fields([old EXCEPT !.pid.taxon = taxon],
                                                 taxon, lbl, ent)


----------------------------------------------------------------------------
(* enrich_file, run after run on one cache path: Spec *)

\* The input graphs: one record with a pathogen name only; with a pathogen
\* name and a taxon; with a whitespace-only pathogen name; two records whose
\* titles trim to the same label; no record.  run.input keeps the graph as
\* it was read.
PlainTaxon(title) ==
    Taxon(title, None, None, None, NoDict, NoDict, NoDict, <<>>, <<>>)

RunNode(pn, tx) == Node(<<"n">>, Pid(pn, tx), NoField, NoField, None)

RunGraphs ==
    {<<RunNode(PathogenName(A), NoDict)>>,
     <<RunNode(PathogenName(A), PlainTaxon(B))>>,
     <<RunNode(PathogenName(Blank), PlainTaxon(B))>>,
     <<RunNode(PathogenName(PadA), NoDict), RunNode(NoDict, PlainTaxon(A))>>,
     <<RunNode(PathogenName(B), NoDict)>>,
     <<>>}

\* What the authority answers for a label when it answers.
AuthorityAnswers(label) ==
    IF label = A THEN {Res("current", EntB, NoDict, NoDict)}
    ELSE IF label = B THEN {Res("current", EntC, NoDict, NoDict)}
    ELSE {NullRes}

\* The coordinating thread before a run.  max_workers is the pool size
\* resolve_all_labels is called with; raised is the step whose exception has
\* ended the run, and exit the exit status of the process, -1 while it runs.
Idle ==
    [pc |-> "idle", input |-> <<>>, graph |-> <<>>, labels |-> {},
     cache |-> EmptyCache, entry |-> EmptyCache, saved |-> "no",
     max_workers |-> MaxWorkers, raised |-> "none", exit |-> -1]

Init ==
    /\ run = Idle
    /\ tasks = <<>>
    /\ cacheFile = AbsentFile
    /\ outFile = AbsentFile
    /\ stored = {}
    /\ rc = Off
    /\ cn = Off
    /\ en = Off

\* The labels the cache file holds when a run starts: what earlier runs
\* have persisted.
Persisted(file) ==
    IF file.kind = "ok" THEN DOMAIN file.data \ {FetchedAtKey} ELSE {}

\* Lines 427-435: the input is read and its labels are collected.
EfRead ==
    /\ run.pc \in {"idle", "done", "aborted"}
    /\ \E g \in RunGraphs :
           run' = [Idle EXCEPT !.pc = "read", !.input = g, !.graph = g,
                               !.labels = collect_labels_for_resolution(g)]
    /\ tasks' = <<>>
    /\ stored' = stored \cup Persisted(cacheFile)
    /\ UNCHANGED <<cacheFile, outFile, rc, cn, en>>

\* Mutant: the output file is opened for writing before the input is read.
EfReadFailsTruncates ==
    /\ run.pc \in {"idle", "done", "aborted"}
    /\ run' = [Idle EXCEPT !.pc = "aborted", !.raised = "read", !.exit = 1]
    /\ tasks' = <<>>
    /\ stored' = stored \cup Persisted(cacheFile)
    /\ outFile' = CorruptFile
    /\ UNCHANGED <<cacheFile, rc, cn, en>>

\* Lines 427-428: the input file is missing or is no JSON; the exception
\* leaves enrich_file and main (line 486) and ends the process with status 1.
EfReadFails ==
    /\ run.pc \in {"idle", "done", "aborted"}
    /\ run' = [Idle EXCEPT !.pc = "aborted", !.raised = "read", !.exit = 1]
    /\ tasks' = <<>>
    /\ stored' = stored \cup Persisted(cacheFile)
    /\ UNCHANGED <<cacheFile, outFile, rc, cn, en>>

\* Line 438.
EfLoadCache ==
    /\ run.pc = "read"
    /\ run' = [run EXCEPT !.pc = "loaded", !.cache = load_cache(cacheFile)]
    /\ UNCHANGED <<tasks, cacheFile, outFile, stored, rc, cn, en>>

\* Lines 117-127: resolve_all_labels returns at once when nothing is
\* missing, and submits one future per missing label otherwise.
ResolveEnter ==
    /\ run.pc = "loaded"
    /\ LET missing == Missing(run.labels, run.cache)
       IN  IF missing = {}
           THEN /\ run' = [run EXCEPT !.pc = "resolved", !.entry = run.cache]
                /\ tasks' = <<>>
           ELSE /\ run' = [run EXCEPT !.pc = "collecting", !.entry = run.cache]
                /\ tasks' = SubmitAll(missing)
    /\ UNCHANGED <<cacheFile, outFile, stored, rc, cn, en>>

\* The futures a worker thread of the pool is executing.
Running == {l \in DOMAIN tasks : tasks[l].st = "running"}

\* Mutant: a future is taken up whether or not a worker is free.
TaskStartUnbounded(l) ==
    /\ tasks[l].st = "queued"
    /\ tasks' = [tasks EXCEPT ![l] = [st |-> "running", raised |-> FALSE,
                    r |-> robust_call_enter(DefaultRetries, DefaultBaseWait)]]
    /\ UNCHANGED <<run, cacheFile, outFile, stored, rc, cn, en>>

\* Lines 108-109: a worker takes the future up, builds its client and enters
\* robust_call with the defaults.
TaskStart(l) ==
    /\ tasks[l].st = "queued"
    /\ Cardinality(Running) < run.max_workers
    /\ tasks' = [tasks EXCEPT ![l] = [st |-> "running", raised |-> FALSE,
                    r |-> robust_call_enter(DefaultRetries, DefaultBaseWait)]]
    /\ UNCHANGED <<run, cacheFile, outFile, stored, rc, cn, en>>

\* Line 108: ICTVOLSClient() raises, outside robust_call.
TaskStartFails(l) ==
    /\ tasks[l].st = "queued"
    /\ Cardinality(Running) < run.max_workers
    /\ tasks' = [tasks EXCEPT ![l] = [st |-> "done", raised |-> TRUE, r |-> Off]]
    /\ UNCHANGED <<run, cacheFile, outFile, stored, rc, cn, en>>

\* Mutant: the worker writes its result into the shared cache itself.
TaskTryWritesCache(l) ==
    /\ tasks[l].st = "running"
    /\ tasks[l].r.pc = "try"
    /\ \E o \in {Raises} \cup {Returns(v) : v \in AuthorityAnswers(l)} :
           LET r2 == robust_call_try(tasks[l].r, o)
           IN  /\ tasks' = [tasks EXCEPT ![l].r = r2,
                               ![l].st = IF r2.pc = "returned" THEN "done" ELSE "running"]
               /\ run' = IF r2.pc = "returned"
                         THEN [run EXCEPT !.cache = (l :> r2.ret) @@ run.cache]
                         ELSE run
    /\ UNCHANGED <<cacheFile, outFile, stored, rc, cn, en>>

\* Lines 25-31: one resolveToLatest(label) call of the worker.
TaskTry(l) ==
    /\ tasks[l].st = "running"
    /\ tasks[l].r.pc = "try"
    /\ \E o \in {Raises} \cup {Returns(v) : v \in AuthorityAnswers(l)} :
           LET r2 == robust_call_try(tasks[l].r, o)
           IN  tasks' = [tasks EXCEPT ![l].r = r2,
                            ![l].st = IF r2.pc = "returned" THEN "done" ELSE "running"]
    /\ UNCHANGED <<run, cacheFile, outFile, stored, rc, cn, en>>

\* Lines 32-33.
TaskSleep(l) ==
    /\ tasks[l].st = "running"
    /\ tasks[l].r.pc = "sleep"
    /\ LET r2 == robust_call_sleep(tasks[l].r)
       IN  tasks' = [tasks EXCEPT ![l].r = r2,
                        ![l].st = IF r2.pc = "returned" THEN "done" ELSE "running"]
    /\ UNCHANGED <<run, cacheFile, outFile, stored, rc, cn, en>>

\* Mutant: the exception of a future is not caught and ends the batch.
CollectAborts(l) ==
    /\ run.pc = "collecting"
    /\ tasks[l].st = "done"
    /\ run' = IF tasks[l].raised
              THEN [run EXCEPT !.pc = "aborted", !.raised = "resolve"]
              ELSE [run EXCEPT !.cache = (l :> tasks[l].r.ret) @@ run.cache]
    /\ tasks' = [tasks EXCEPT ![l].st = "collected"]
    /\ UNCHANGED <<cacheFile, outFile, stored, rc, cn, en>>

\* Mutant: the result written under a label is that of whichever future
\* completed, not of the future the label was submitted with.
CollectAnyResult(l) ==
    /\ run.pc = "collecting"
    /\ tasks[l].st = "done"
    /\ LET k == CHOOSE k \in DOMAIN tasks : tasks[k].st = "done"
       IN  run' = [run EXCEPT !.cache = (l :> FutureResult(tasks[k])) @@ run.cache]
    /\ tasks' = [tasks EXCEPT ![l].st = "collected"]
    /\ UNCHANGED <<cacheFile, outFile, stored, rc, cn, en>>

\* Lines 129-137: the coordinator takes a completed future and writes its
\* result into the cache.
Collect(l) ==
    /\ run.pc = "collecting"
    /\ tasks[l].st = "done"
    /\ run' = [run EXCEPT !.cache = (l :> FutureResult(tasks[l])) @@ run.cache]
    /\ tasks' = [tasks EXCEPT ![l].st = "collected"]
    /\ UNCHANGED <<cacheFile, outFile, stored, rc, cn, en>>

\* Mutant: the call returns while futures are outstanding.
ResolveReturnEarly ==
    /\ run.pc = "collecting"
    /\ run' = [run EXCEPT !.pc = "resolved"]
    /\ UNCHANGED <<tasks, cacheFile, outFile, stored, rc, cn, en>>

\* Line 142: every future has been collected.
ResolveReturn ==
    /\ run.pc = "collecting"
    /\ \A l \in DOMAIN tasks : tasks[l].st = "collected"
    /\ run' = [run EXCEPT !.pc = "resolved"]
    /\ UNCHANGED <<tasks, cacheFile, outFile, stored, rc, cn, en>>

\* Line 444.
EfSaveCache ==
    /\ run.pc = "resolved"
    /\ \E o \in SaveOutcomes(run.cache, cacheFile) :
           /\ cacheFile' = o.file
           /\ run' = [run EXCEPT !.pc = "saved", !.saved = o.how,
                                 !.cache = StampCache(run.cache)]
    /\ UNCHANGED <<tasks, outFile, stored, rc, cn, en>>

\* Line 447.
EfEnrich ==
    /\ run.pc = "saved"
    /\ run' = [run EXCEPT !.pc = "enriched",
                          !.graph = enrich_graph_with_cache(run.graph, run.cache)]
    /\ UNCHANGED <<tasks, cacheFile, outFile, stored, rc, cn, en>>

\* Lines 450-452: what the output file holds after the write: the document;
\* the file as it was, when mkdir() or open() raised; or a truncated
\* document, when json.dump raised after open(..., "w") had emptied the file.
WriteOutcomes(graph, file) ==
    {[how |-> "ok", file |-> [kind |-> "ok", graph |-> graph]],
     [how |-> "unopened", file |-> file],
     [how |-> "partial", file |-> CorruptFile]}

\* Lines 450-454, and main's return 0 (lines 486-487, 491); an exception of
\* the write is not caught and ends the process with status 1.
EfWrite ==
    /\ run.pc = "enriched"
    /\ \E o \in WriteOutcomes(run.graph, outFile) :
           /\ outFile' = o.file
           /\ run' = IF o.how = "ok"
                     THEN [run EXCEPT !.pc = "done", !.exit = 0]
                     ELSE [run EXCEPT !.pc = "aborted", !.raised = "write",
                                      !.exit = 1]
    /\ UNCHANGED <<tasks, cacheFile, stored, rc, cn, en>>

WorkerStarts == \E l \in DOMAIN tasks : TaskStart(l)
WorkerStartFails == \E l \in DOMAIN tasks : TaskStartFails(l)
WorkerTries == \E l \in DOMAIN tasks : TaskTry(l)
WorkerSleeps == \E l \in DOMAIN tasks : TaskSleep(l)
CoordinatorCollects == \E l \in DOMAIN tasks : Collect(l)

Next ==
    \/ EfRead \/ EfReadFails \/ EfLoadCache \/ ResolveEnter
    \/ WorkerStarts \/ WorkerStartFails \/ WorkerTries \/ WorkerSleeps
    \/ CoordinatorCollects \/ ResolveReturn
    \/ EfSaveCache \/ EfEnrich \/ EfWrite

Spec == Init /\ [][Next]_vars


\* The labels for which a worker of the current run has called the authority.
Called == {l \in DOMAIN tasks : tasks[l].r # Off /\ tasks[l].r.log # <<>>}

\* C1: resolve_all_labels dispatches no task and issues no call for a label
\* that is a key of the cache on entry (also one mapped to null), leaves
\* every entry the cache had on entry unchanged, and when every label is
\* cached it dispatches nothing and returns the cache as it was.
C1_CachedNotResolved ==
    run.pc \in {"collecting", "resolved"} =>
        /\ DOMAIN tasks \cap DOMAIN run.entry = {}
        /\ Called \cap DOMAIN run.entry = {}
        /\ \A k \in DOMAIN run.entry :
               k \in DOMAIN run.cache /\ run.cache[k] = run.entry[k]
        /\ run.labels \subseteq DOMAIN run.entry =>
               tasks = <<>> /\ run.cache = run.entry

\* resolve_all_labels has returned for the labels "a", cached as null on
\* entry, and "b", which was missing and has been resolved.
C1_Witness ==
    /\ run.pc = "resolved"
    /\ run.labels = {A, B}
    /\ A \in DOMAIN run.entry
    /\ run.entry[A] = NullRes
    /\ B \notin DOMAIN run.entry
    /\ DOMAIN tasks = {B}
    /\ tasks[B].st = "collected"
    /\ run.cache[B] # NullRes
    /\ run.cache[A] = NullRes

\* C2 as stated: a label an earlier run has stored in the cache stays in the
\* cache file, and no later run calls the authority for it.
C2_StoredNeverRequeried ==
    /\ \A l \in stored : l \in Persisted(cacheFile)
    /\ Called \cap stored = {}

\* C8: from an empty cache, with a graph of one record whose only label is
\* the pathogen-name title P and an authority that answers `current` with
\* the entity {label T, ictv_id I, synonyms [P]}, enrich_file leaves a taxon
\* node with title T, taxonomicId I and the single alternate name P, a cache
\* file that maps P to the answer (when save_cache has written it), and a
\* keyword field holding T and P.
C8_Scenario(P, T, I) ==
    /\ run.pc = "done"
    /\ run.entry = EmptyCache
    /\ run.input = <<RunNode(PathogenName(P), NoDict)>>
    /\ P \in DOMAIN tasks
    /\ ~tasks[P].raised
    /\ tasks[P].r.ret = Res("current", SimpleEnt(T, I, <<P>>), NoDict, NoDict)

C8_EndToEnd ==
    \A P \in {A, B}, T \in {A, B, C}, I \in {<<"1">>, <<"2">>, <<"3">>} :
        C8_Scenario(P, T, I) =>
            /\ outFile.kind = "ok"
            /\ Len(outFile.graph) = 1
            /\ LET rec == outFile.graph[1]
                   taxon == rec.pid.taxon
               IN  /\ taxon # NoDict
                   /\ taxon.title = T
                   /\ taxon.taxonomicId = I
                   /\ Len(taxon.alternateName) = 1
                   /\ taxon.alternateName[1].title = P
                   /\ rec.keyword.kind = "list"
                   /\ \E i \in 1..Len(rec.keyword.v) : rec.keyword.v[i] = T
                   /\ \E i \in 1..Len(rec.keyword.v) : rec.keyword.v[i] = P
            /\ run.saved = "ok" =>
                   /\ cacheFile.kind = "ok"
                   /\ P \in DOMAIN cacheFile.data
                   /\ cacheFile.data[P] =
                          Res("current", SimpleEnt(T, I, <<P>>), NoDict, NoDict)

\* The scenario has run to its end with P = "a", T = "b", I = "2", the answer
\* coming on the first call.
C8_Witness ==
    /\ C8_Scenario(A, B, <<"2">>)
    /\ run.saved = "ok"
    /\ Len(tasks[A].r.log) = 1
    /\ outFile.kind = "ok"
    /\ outFile.graph[1].pid.taxon.title = B

\* C16 as stated: whatever happens to the write of save_cache, the cache
\* file afterwards holds the complete previous document or the complete new
\* one, never a truncated or unparsable one.
C16_SaveNeverCorrupts ==
    /\ cacheFile # CorruptFile
    /\ run.pc = "saved" /\ run.saved # "ok" =>
           cacheFile = AbsentFile \/ cacheFile = CacheDoc(run.cache)
                                  \/ load_cache(cacheFile) = run.entry

\* C20: a run whose input file is missing or cannot be read ends with a
\* non-zero exit status and leaves the output file as it was; the output
\* file is written only once enrich_graph_with_cache has returned, and a
\* complete output holds every record of the input, enriched.
C20_NoOutputOnInputFailure ==
    /\ [](run.pc = "aborted" /\ run.raised = "read" => run.exit > 0)
    /\ [](run.pc = "done" => run.exit = 0)
    /\ [][run'.pc = "aborted" /\ run'.raised = "read" /\ run' # run =>
             outFile' = outFile]_vars
    /\ [][outFile' # outFile =>
             /\ run.pc = "enriched"
             /\ outFile'.kind = "ok" =>
                    /\ outFile'.graph = run.graph
                    /\ Len(outFile'.graph) = Len(run.input)]_vars

\* A run has written its output; the next run could not read its input and
\* has ended with status 1, the output of the earlier run still in place.
C20_Witness ==
    /\ run.pc = "aborted"
    /\ run.raised = "read"
    /\ run.exit = 1
    /\ outFile.kind = "ok"
    /\ Len(outFile.graph) = 2

\* The cache keys enrich_graph_with_cache may look up for a record: its
\* pathogen-name title and its existing taxon title, trimmed, when not empty.
LookupKeys(n) ==
    {strip(t) : t \in {t \in {NameTitle(n), TaxonTitleOf(n)} :
                           t # None /\ t # <<>> /\ strip(t) # <<>>}}

\* C28: within a run, every key the enrichment looks up for a record of the
\* input is in the label set collected from that input, and from the return
\* of the resolve phase on it is a key of the cache.
C28_LookupsCovered ==
    \A i \in 1..Len(run.input) :
        /\ LookupKeys(run.input[i]) \subseteq run.labels
        /\ run.pc \in {"resolved", "saved", "enriched", "done"} =>
               LookupKeys(run.input[i]) \subseteq DOMAIN run.cache
        /\ run.pc = "saved" => run.graph[i] = run.input[i]

\* The enrichment is about to look up "a" for both records, the padded
\* pathogen name of the first and the taxon title of the second; every call
\* for "a" had raised, so the key is in the cache, mapped to null.
C28_Witness ==
    /\ run.pc = "saved"
    /\ run.input = <<RunNode(PathogenName(PadA), NoDict), RunNode(NoDict, PlainTaxon(A))>>
    /\ run.labels = {A}
    /\ A \in DOMAIN run.cache
    /\ run.cache[A] = NullRes

\* C26 as stated: every label a run collects, dispatches to the authority
\* or writes as a cache key is a trimmed, non-empty string.
C26_LabelsTrimmedNonEmpty ==
    \A l \in run.labels \cup DOMAIN tasks \cup Called
              \cup (DOMAIN run.cache \ {FetchedAtKey})
              \cup Persisted(cacheFile) :
        l # <<>> /\ strip(l) = l


----------------------------------------------------------------------------
(* resolve_all_labels on its own: SpecResolve, and SpecResolveFair *)

\* The largest pool resolve_all_labels is called with.
MaxPool == 2

\* The label sets and the caches resolve_all_labels is entered with.
ResolveLabelSets == SUBSET {A, B, C}

ResolveCaches ==
    {EmptyCache,
     A :> NullRes,
     A :> Res("current", EntB, NoDict, NoDict),
     (A :> NullRes) @@ (B :> Res("current", EntC, NoDict, NoDict))}

ResolveInit ==
    /\ run \in {[Idle EXCEPT !.pc = "loaded", !.labels = ls, !.cache = c,
                             !.max_workers = w] :
                  ls \in ResolveLabelSets, c \in ResolveCaches, w \in 1..MaxPool}
    /\ tasks = <<>>
    /\ cacheFile = Off
    /\ outFile = Off
    /\ stored = {}
    /\ rc = Off
    /\ cn = Off
    /\ en = Off

ResolveNext ==
    \/ ResolveEnter
    \/ WorkerStarts \/ WorkerStartFails \/ WorkerTries \/ WorkerSleeps
    \/ CoordinatorCollects \/ ResolveReturn

SpecResolve == ResolveInit /\ [][ResolveNext]_vars

\* The coordinating thread and the pool's threads are scheduled, and every
\* call of the authority returns or raises.
ResolveFairness ==
    /\ WF_vars(ResolveEnter)
    /\ WF_vars(WorkerStarts \/ WorkerStartFails)
    /\ WF_vars(WorkerTries)
    /\ WF_vars(WorkerSleeps)
    /\ WF_vars(CoordinatorCollects)
    /\ WF_vars(ResolveReturn)

SpecResolveFair == SpecResolve /\ ResolveFairness

\* C11: when every authority call returns or raises, resolve_all_labels
\* returns; it returns only after every dispatched task has completed; and
\* on return every label of the input set is a key of the cache.
C11_Terminates ==
    /\ [](run.pc = "resolved" =>
            /\ \A l \in DOMAIN tasks : tasks[l].st = "collected"
            /\ run.labels \subseteq DOMAIN run.cache)
    /\ (run.pc \in {"loaded", "collecting"}) ~> (run.pc = "resolved")

\* resolve_all_labels has returned after three tasks, with fewer workers
\* than tasks; one label was resolved, one gave up after the last retry.
C11_Witness ==
    /\ run.pc = "resolved"
    /\ run.max_workers < Cardinality(DOMAIN tasks)
    /\ DOMAIN tasks = {A, B, C}
    /\ \A l \in DOMAIN tasks : tasks[l].st = "collected"
    /\ tasks[A].r # Off /\ tasks[A].r.ret # NullRes
    /\ tasks[B].r # Off /\ Len(tasks[B].r.log) = DefaultRetries
    /\ run.cache[B] = NullRes


\* C12: a task whose exception the retry wrapper did not absorb is recorded
\* as null under its label; the coordinator goes on collecting, every other
\* task's result is written to the cache, and the batch is not aborted.
C12_TaskExceptionRecorded ==
    /\ run.pc \in {"loaded", "collecting", "resolved"}
    /\ \A l \in DOMAIN tasks :
           tasks[l].st = "collected" =>
               /\ l \in DOMAIN run.cache
               /\ tasks[l].raised => run.cache[l] = NullRes
               /\ ~tasks[l].raised => run.cache[l] = tasks[l].r.ret
    /\ run.pc = "resolved" => \A l \in DOMAIN tasks : tasks[l].st = "collected"

\* The task of "a" raised outside robust_call and the task of "b" returned
\* the authority's answer; the call has returned with both in the cache.
C12_Witness ==
    /\ run.pc = "resolved"
    /\ DOMAIN tasks = {A, B}
    /\ tasks[A].raised
    /\ run.cache[A] = NullRes
    /\ ~tasks[B].raised
    /\ run.cache[B] = Res("current", EntC, NoDict, NoDict)


\* C13: while resolve_all_labels runs, every change of the cache mapping is
\* one step of the coordinating thread, which writes the result of one
\* completed future under its label; no step of a worker changes the cache,
\* so no two writes of the cache are concurrent.
C13_SingleWriter ==
    [][run.cache' # run.cache =>
          \E l \in DOMAIN tasks :
              /\ run.pc = "collecting"
              /\ tasks[l].st = "done"
              /\ tasks'[l].st = "collected"
              /\ \A k \in DOMAIN tasks \ {l} : tasks'[k] = tasks[k]
              /\ tasks'[l].r = tasks[l].r
              /\ run.cache' = (l :> FutureResult(tasks[l])) @@ run.cache]_vars

\* The coordinator has written the result of "a" into the cache while the
\* worker of "b" is in a call of the authority.
C13_Witness ==
    /\ run.pc = "collecting"
    /\ DOMAIN tasks = {A, B}
    /\ tasks[A].st = "collected"
    /\ run.cache[A] = Res("current", EntB, NoDict, NoDict)
    /\ tasks[B].st = "running"
    /\ tasks[B].r.pc = "try"
    /\ B \notin DOMAIN run.cache


\* What the authority calls of one task determine for its label: null when
\* the task raised or every call raised, the value of the call that returned
\* otherwise.
TaskOutcome(t) ==
    IF t.raised THEN NullRes
    ELSE LET n == Len(t.r.log)
         IN  IF n >= 1 /\ ~t.r.log[n].raised THEN t.r.log[n].value ELSE NullRes

\* C27: the cache resolve_all_labels returns is a function of the cache on
\* entry and of the outcomes of each label's own authority calls, whatever
\* the interleaving of the workers and the coordinator; every write of the
\* cache adds one key that was not there, so each missing label is written
\* exactly once.
C27_OrderIndependent ==
    /\ [](run.pc = "resolved" =>
            /\ DOMAIN run.cache = DOMAIN run.entry \cup DOMAIN tasks
            /\ DOMAIN tasks = run.labels \ DOMAIN run.entry
            /\ \A l \in DOMAIN run.entry : run.cache[l] = run.entry[l]
            /\ \A l \in DOMAIN tasks : run.cache[l] = TaskOutcome(tasks[l]))
    /\ [][run.cache' # run.cache =>
            \E l \in DOMAIN tasks \ DOMAIN run.cache :
                /\ DOMAIN run.cache' = DOMAIN run.cache \cup {l}
                /\ \A k \in DOMAIN run.cache : run.cache'[k] = run.cache[k]]_vars

\* Three labels were missing and the pool had fewer workers than tasks; "b"
\* was answered at its first call and "a" only after a retry, and the call
\* has returned the answers of "a" and "b" under their own labels and null
\* for "c".
C27_Witness ==
    /\ run.pc = "resolved"
    /\ run.entry = EmptyCache
    /\ DOMAIN tasks = {A, B, C}
    /\ run.max_workers < Cardinality(DOMAIN tasks)
    /\ run.cache[A] = Res("current", EntB, NoDict, NoDict)
    /\ run.cache[B] = Res("current", EntC, NoDict, NoDict)
    /\ run.cache[C] = NullRes
    /\ Len(tasks[A].r.log) > 1
    /\ Len(tasks[B].r.log) = 1


\* C14: at every moment at most max_workers tasks are executing; exactly
\* one task is dispatched per missing label and none is dispatched again; a
\* task is taken up only while a worker is free, and a task that executes
\* stays executing until its robust_call has returned (it is never
\* cancelled).
C14_BoundedPool ==
    /\ [](Cardinality(Running) <= run.max_workers)
    /\ [](run.pc = "collecting" => DOMAIN tasks = run.labels \ DOMAIN run.entry)
    /\ [][\A l \in DOMAIN tasks \cap DOMAIN tasks' :
             /\ tasks[l].st = "queued" /\ tasks'[l].st # "queued" =>
                    Cardinality(Running) < run.max_workers
             /\ tasks[l].st = "running" =>
                    /\ tasks'[l].st \in {"running", "done"}
                    /\ tasks'[l].st = "done" => tasks'[l].r.pc = "returned"
             /\ tasks[l].st \in {"done", "collected"} =>
                    tasks'[l].st \in {"done", "collected"}]_vars

\* A pool of one worker: the task of "a" has completed, the task of "b"
\* executes in the freed worker, and the task of "c" waits for it.
C14_Witness ==
    /\ run.pc = "collecting"
    /\ run.max_workers = 1
    /\ DOMAIN tasks = {A, B, C}
    /\ tasks[A].st \in {"done", "collected"}
    /\ tasks[B].st = "running"
    /\ tasks[C].st = "queued"


----------------------------------------------------------------------------
(* load_cache on any cache file, and the first use of what it returns:
   SpecLoad *)

\* A cache file that holds a JSON document other than an object: an array
\* or a string, which json.load returns and len() accepts (lines 55-56), and
\* a number, a boolean or null, on which len() raises inside the try.
ArrayFile == [kind |-> "array"]
ScalarFile == [kind |-> "scalar"]

\* What load_cache returns (lines 51-60): a dict, or the array (or string)
\* of the document, which line 57 returns as it is.
DictValue(data) == [kind |-> "dict", data |-> data]
ListValue == [kind |-> "list"]

LoadedValue(file) ==
    IF file.kind = "array" THEN ListValue
    ELSE IF file.kind = "scalar" THEN DictValue(EmptyCache)
    ELSE DictValue(load_cache(file))

\* The cache files load_cache is called on.
LoadMappings ==
    {EmptyCache}
    \cup {A :> a : a \in CacheValsA}
    \cup {(A :> a) @@ (B :> b) : a \in CacheValsA, b \in CacheValsB}

LoadFiles ==
    {AbsentFile, CorruptFile, ArrayFile, ScalarFile}
    \cup {CacheDoc(m) : m \in LoadMappings}
    \cup {CacheDoc(StampCache(m)) : m \in LoadMappings}

LoadInit ==
    /\ run \in {[pc |-> "start", file |-> f, labels |-> ls,
                 value |-> DictValue(EmptyCache)] :
                  f \in LoadFiles, ls \in SUBSET {A, B}}
    /\ tasks = <<>>
    /\ cacheFile = Off
    /\ outFile = Off
    /\ stored = {}
    /\ rc = Off
    /\ cn = Off
    /\ en = Off

\* Line 438: cache = load_cache(cache_path).
LcLoad ==
    /\ run.pc = "start"
    /\ run' = [run EXCEPT !.pc = "loaded", !.value = LoadedValue(run.file)]
    /\ UNCHANGED <<tasks, cacheFile, outFile, stored, rc, cn, en>>

\* Lines 117-137: resolve_all_labels on the value.  `lbl not in cache` is
\* defined on a list too; `cache[label] = res` raises TypeError on a list,
\* for the first label collected, and the exception ends the run.
LcResolve ==
    /\ run.pc = "loaded"
    /\ run' = [run EXCEPT !.pc = IF run.value.kind = "list" /\ run.labels # {}
                                 THEN "aborted" ELSE "resolved"]
    /\ UNCHANGED <<tasks, cacheFile, outFile, stored, rc, cn, en>>

LoadNext == LcLoad \/ LcResolve

SpecLoad == LoadInit /\ [][LoadNext]_vars

\* C15 as stated: load_cache returns the empty mapping for a file that is
\* absent or cannot be parsed and the stored mapping otherwise, and what
\* the cache file holds never aborts the run.
C15_LoadNeverAborts ==
    /\ run.pc # "start" =>
           /\ run.value.kind = "dict"
           /\ run.file.kind \in {"absent", "corrupt"} =>
                  run.value.data = EmptyCache
           /\ run.file.kind = "ok" => run.value.data = run.file.data
    /\ run.pc # "aborted"

----------------------------------------------------------------------------
(* The multi-source merges: merge_all_partners.py and merge_eva_jsonld.py,
   SpecMerge *)

\* merge_all_partners.py lines 6-10: INPUT_FILES has three entries.
NumPartnerFiles == 3

\* The largest number of page files the glob of merge_eva_jsonld.py finds.
MaxPages == 3

\* The value of `context` before a file has set it (None), which is also what
\* a document with "@context": null sets it to.
NullContext == "null"

\* What stands for the "@context" of a document that has no such key.
NoContextKey == "absent"

\* merge_all_partners.py lines 36-43.
FallbackContext == "fallback"

\* A JSON-LD document: its "@context" (or NoContextKey), whether it has an
\* "@graph" key with a non-null value, and that value.
MergeDoc(context, hasGraph, graph) ==
    [kind |-> "ok", context |-> context, hasGraph |-> hasGraph, graph |-> graph]

\* Mutant: the context of every file that has one replaces the one held.
AdoptContextLast(context, data) ==
    IF data.context # NoContextKey THEN data.context ELSE context

\* Lines 27-28 (partners) and 23-24 (eva).
AdoptContext(context, data) ==
    IF context = NullContext /\ data.context # NoContextKey
    THEN data.context
    ELSE context

\* Line 30 (partners) and 26 (eva): data.get("@graph") or [].
GraphOf(data) == IF data.hasGraph THEN data.graph ELSE <<>>

\* Mutant: the graph of a file is put in front of what was merged.
ExtendFront(merged_graph, graph) == graph \o merged_graph

\* Line 31 (partners) and 27 (eva): merged_graph.extend(graph).
Extend(merged_graph, graph) == merged_graph \o graph

\* The documents the input files hold.
MergeContexts == {NoContextKey, NullContext, "c1", "c2"}

MergeGraphs == {<<"p">>, <<"q", "p">>}

MergeDocs ==
    {MergeDoc(c, FALSE, <<>>) : c \in MergeContexts}
    \cup {MergeDoc(c, TRUE, g) : c \in MergeContexts, g \in MergeGraphs}

\* main of either script at its first file.
MergeStart(script, files) ==
    [pc |-> "merging", script |-> script, files |-> files, i |-> 1,
     merged_graph |-> <<>>, context |-> NullContext, exit |-> -1]

\* The partner files exist or not, and hold a document or no JSON; the page
\* files are those the glob found, so they exist.
MergeInit ==
    /\ run \in {MergeStart("partners", fs) :
                  fs \in [1..NumPartnerFiles -> MergeDocs \cup {AbsentFile, CorruptFile}]}
           \cup {MergeStart("eva", fs) :
                  fs \in UNION {[1..n -> MergeDocs \cup {CorruptFile}] : n \in 0..MaxPages}}
    /\ outFile = AbsentFile
    /\ tasks = <<>>
    /\ cacheFile = Off
    /\ stored = {}
    /\ rc = Off
    /\ cn = Off
    /\ en = Off

\* The file the loop is at.
MergeAt(script) ==
    /\ run.pc = "merging"
    /\ run.script = script
    /\ run.i <= Len(run.files)

\* The loop is over.
MergeLoopDone(script) ==
    /\ run.pc = "merging"
    /\ run.script = script
    /\ run.i > Len(run.files)

\* merge_all_partners.py lines 20-22.
PartnersSkip ==
    /\ MergeAt("partners")
    /\ run.files[run.i].kind = "absent"
    /\ run' = [run EXCEPT !.i = @ + 1]
    /\ UNCHANGED <<outFile, tasks, cacheFile, stored, rc, cn, en>>

\* merge_all_partners.py lines 24-32.
PartnersRead ==
    /\ MergeAt("partners")
    /\ run.files[run.i].kind = "ok"
    /\ LET data == run.files[run.i]
       IN  run' = [run EXCEPT !.i = @ + 1,
                       !.context = AdoptContext(@, data),
                       !.merged_graph = Extend(@, GraphOf(data))]
    /\ UNCHANGED <<outFile, tasks, cacheFile, stored, rc, cn, en>>

\* merge_all_partners.py lines 24-25: json.load raises and ends the process.
PartnersReadFails ==
    /\ MergeAt("partners")
    /\ run.files[run.i].kind = "corrupt"
    /\ run' = [run EXCEPT !.pc = "aborted", !.exit = 1]
    /\ UNCHANGED <<outFile, tasks, cacheFile, stored, rc, cn, en>>

\* merge_all_partners.py lines 34-52.
PartnersWrite ==
    /\ MergeLoopDone("partners")
    /\ LET context == IF run.context = NullContext THEN FallbackContext
                      ELSE run.context
       IN  /\ outFile' = [kind |-> "ok", context |-> context,
                          graph |-> run.merged_graph]
           /\ run' = [run EXCEPT !.pc = "done", !.context = context, !.exit = 0]
    /\ UNCHANGED <<tasks, cacheFile, stored, rc, cn, en>>

\* merge_eva_jsonld.py lines 12-14.
EvaNoPages ==
    /\ run.pc = "merging"
    /\ run.script = "eva"
    /\ run.files = <<>>
    /\ run' = [run EXCEPT !.pc = "aborted", !.exit = 1]
    /\ UNCHANGED <<outFile, tasks, cacheFile, stored, rc, cn, en>>

\* merge_eva_jsonld.py lines 19-28.
EvaRead ==
    /\ MergeAt("eva")
    /\ run.files[run.i].kind = "ok"
    /\ LET data == run.files[run.i]
       IN  run' = [run EXCEPT !.i = @ + 1,
                       !.context = AdoptContext(@, data),
                       !.merged_graph = Extend(@, GraphOf(data))]
    /\ UNCHANGED <<outFile, tasks, cacheFile, stored, rc, cn, en>>

\* merge_eva_jsonld.py lines 20-21: json.load raises and ends the process.
EvaReadFails ==
    /\ MergeAt("eva")
    /\ run.files[run.i].kind = "corrupt"
    /\ run' = [run EXCEPT !.pc = "aborted", !.exit = 1]
    /\ UNCHANGED <<outFile, tasks, cacheFile, stored, rc, cn, en>>

\* merge_eva_jsonld.py lines 30-31.
EvaNoContext ==
    /\ MergeLoopDone("eva")
    /\ run.files # <<>>
    /\ run.context = NullContext
    /\ run' = [run EXCEPT !.pc = "aborted", !.exit = 1]
    /\ UNCHANGED <<outFile, tasks, cacheFile, stored, rc, cn, en>>

\* merge_eva_jsonld.py lines 33-40.
EvaWrite ==
    /\ MergeLoopDone("eva")
    /\ run.files # <<>>
    /\ run.context # NullContext
    /\ outFile' = [kind |-> "ok", context |-> run.context,
                   graph |-> run.merged_graph]
    /\ run' = [run EXCEPT !.pc = "done", !.exit = 0]
    /\ UNCHANGED <<tasks, cacheFile, stored, rc, cn, en>>

MergeNext ==
    \/ PartnersSkip \/ PartnersRead \/ PartnersReadFails \/ PartnersWrite
    \/ EvaNoPages \/ EvaRead \/ EvaReadFails \/ EvaNoContext \/ EvaWrite

SpecMerge == MergeInit /\ [][MergeNext]_vars

\* The graphs of the first n files one after the other; a missing file and
\* a document without a graph contribute nothing.
RECURSIVE ConcatGraphs(_, _)
ConcatGraphs(files, n) ==
    IF n = 0 THEN <<>>
    ELSE ConcatGraphs(files, n - 1)
             \o (IF files[n].kind = "ok" /\ files[n].hasGraph
                 THEN files[n].graph ELSE <<>>)

\* The files that carry a context.
CarriesContext(files) ==
    {i \in 1..Len(files) :
        /\ files[i].kind = "ok"
        /\ files[i].context \notin {NoContextKey, NullContext}}

\* C23: what a merge writes holds the graphs of the input files one after
\* the other, in file order and each in its own record order, a missing
\* file contributing nothing; and its context is that of the first file that
\* carries one, whatever the later files carry.
C23_MergeConcatenates ==
    run.pc = "done" =>
        /\ outFile.kind = "ok"
        /\ outFile.graph = ConcatGraphs(run.files, Len(run.files))
        /\ \A i \in CarriesContext(run.files) :
               (\A j \in CarriesContext(run.files) : i <= j) =>
                   outFile.context = run.files[i].context

\* The partner merge has written its output: the first file was missing,
\* the second and third hold different contexts and graphs that share a
\* record.
C23_Witness ==
    /\ run.pc = "done"
    /\ run.script = "partners"
    /\ run.files = <<AbsentFile, MergeDoc("c1", TRUE, <<"q", "p">>),
                     MergeDoc("c2", TRUE, <<"p">>)>>
    /\ outFile.context = "c1"
    /\ outFile.graph = <<"q", "p", "p">>

====
